---- MODULE Spec2Model ----
(***************************************************************************)
(* Transit-signal-priority plan search of analytical.py.                   *)
(*                                                                         *)
(* Durations and times are Python floats in the source.  They are modelled *)
(* as exact rationals <<numerator, denominator>> (denominator >= 1, lowest *)
(* terms), so that proportional shares such as 10 * 36 / 82 are carried    *)
(* exactly and the source's tolerances (1e-6, 0.01) keep their meaning.    *)
(* Python lists are sequences, so list index k is position k + 1 here.     *)
(***************************************************************************)
EXTENDS Integers, Sequences, FiniteSets, TLC

(***************************************************************************)
(* Exact arithmetic standing for the float operators of the source.        *)
(***************************************************************************)
Abs(x) == IF x < 0 THEN -x ELSE x

RECURSIVE GCD(_, _)
GCD(a, b) == IF b = 0 THEN a ELSE GCD(b, a % b)

Rat(n, d) ==
    LET s == IF d < 0 THEN -1 ELSE 1
        g == GCD(Abs(n), Abs(d))
    IN  <<(s * n) \div g, (s * d) \div g>>

R(n) == <<n, 1>>

\* sums and comparisons go through the least common denominator
RAdd(a, b) ==
    LET g == GCD(a[2], b[2])
    IN  Rat(a[1] * (b[2] \div g) + b[1] * (a[2] \div g), (a[2] \div g) * b[2])
RNeg(a) == <<-a[1], a[2]>>
RSub(a, b) == RAdd(a, RNeg(b))
RMul(a, b) ==
    LET g1 == GCD(Abs(a[1]), b[2])
        g2 == GCD(Abs(b[1]), a[2])
    IN  IF a[1] = 0 \/ b[1] = 0 THEN <<0, 1>>
        ELSE <<(a[1] \div g1) * (b[1] \div g2), (a[2] \div g2) * (b[2] \div g1)>>
RDiv(a, b) == RMul(a, IF b[1] < 0 THEN <<-b[2], -b[1]>> ELSE <<b[2], b[1]>>)
\* a denominator of 0 marks float('inf'), see Inf below
RLt(a, b) ==
    LET g == IF a[2] = 0 \/ b[2] = 0 THEN 1 ELSE GCD(a[2], b[2])
    IN  a[1] * (b[2] \div g) < b[1] * (a[2] \div g)
RLe(a, b) == ~RLt(b, a)
RMax(a, b) == IF RLt(a, b) THEN b ELSE a
RMin(a, b) == IF RLt(b, a) THEN b ELSE a
RAbs(a) == <<Abs(a[1]), a[2]>>
\* floor of a rational (\div rounds towards minus infinity)
RFloor(a) == a[1] \div a[2]
\* Python int(x): truncation towards zero
RInt(a) == IF a[1] >= 0 THEN a[1] \div a[2] ELSE -((-a[1]) \div a[2])
\* Python round(x): to the nearest integer, ties to the even one
RRound(a) ==
    LET q == a[1] \div a[2]
        r == a[1] - q * a[2]
    IN  IF 2 * r < a[2] THEN q
        ELSE IF 2 * r > a[2] THEN q + 1
        ELSE IF q % 2 = 0 THEN q ELSE q + 1
\* Python x % m for m > 0
RMod(a, m) == RSub(a, RMul(R(RFloor(RDiv(a, m))), m))

\* abs(x) < 1e-6 and abs(x) > 1e-6, decided without leaving 32-bit integers:
\* a numerator above 2147 over a denominator below 2^31 is already > 1e-6.
AbsBelowMicro(x) ==
    \/ x[1] = 0
    \/ Abs(x[1]) <= 2147 /\ Abs(x[1]) * 1000000 < x[2]
AbsAboveMicro(x) ==
    /\ x[1] # 0
    /\ Abs(x[1]) > 2147 \/ Abs(x[1]) * 1000000 > x[2]
\* abs(x) > 0.01
AbsAboveCenti(x) == Abs(x[1]) * 100 > x[2]

RECURSIVE RSum(_)
RSum(s) == IF s = <<>> THEN R(0) ELSE RAdd(Head(s), RSum(Tail(s)))

MIN_GREEN == 5
YELLOW_DURATION == 4

(***************************************************************************)
(* Phase names and the substring tests the source makes on them.           *)
(***************************************************************************)
NSG == "North-South Through Green"
NSY == "North-South Through Yellow"
EWG == "East-West Through Green"
EWY == "East-West Through Yellow"
NSLG == "North-South Left Green"
NSLY == "North-South Left Yellow"
EWLG == "East-West Left Green"
EWLY == "East-West Left Yellow"

\* the substrings the source looks for that occur in each phase name
Markers(name) ==
    CASE name = NSG  -> {"North-South", "Through", "Green", "North-South Through",
                         "North-South Through Green"}
      [] name = NSY  -> {"North-South", "Through", "Yellow", "North-South Through",
                         "North-South Through Yellow"}
      [] name = EWG  -> {"East-West", "Through", "Green", "East-West Through",
                         "East-West Through Green"}
      [] name = EWY  -> {"East-West", "Through", "Yellow", "East-West Through",
                         "East-West Through Yellow"}
      [] name = NSLG -> {"North-South", "Left", "Green", "North-South Left Green"}
      [] name = NSLY -> {"North-South", "Left", "Yellow", "North-South Left Yellow"}
      [] name = EWLG -> {"East-West", "Left", "Green", "East-West Left Green"}
      [] name = EWLY -> {"East-West", "Left", "Yellow", "East-West Left Yellow"}
      [] OTHER       -> {}

\* sub in name
Contains(name, sub) == sub \in Markers(name)

\* name.replace("Green", "Yellow")
ReplaceGreenByYellow(name) ==
    CASE name = NSG  -> NSY
      [] name = EWG  -> EWY
      [] name = NSLG -> NSLY
      [] name = EWLG -> EWLY
      [] OTHER       -> name

Phase(name, dur) == [phase |-> name, duration |-> dur]

Durations(plan) == [i \in DOMAIN plan |-> plan[i].duration]

\* sum(phase['duration'] for phase in plan)
PlanTotal(plan) == RSum(Durations(plan))

RECURSIVE SumWhere(_, _)
\* sum(plan[i]['duration'] for i in indices), indices given by the marker
SumWhere(plan, marker) ==
    IF plan = <<>> THEN R(0)
    ELSE RAdd(IF Contains(Head(plan).phase, marker) THEN Head(plan).duration ELSE R(0),
              SumWhere(Tail(plan), marker))

(***************************************************************************)
(* validate_plan                                                           *)
(***************************************************************************)
\* validate_plan without its test on the yellow durations
validate_plan_any_yellow(plan) ==
    /\ Len(plan) = 4
    /\ \A i \in DOMAIN plan :
          IF (i - 1) % 2 = 0
          THEN /\ Contains(plan[i].phase, "Green")
               /\ ~RLt(plan[i].duration, R(MIN_GREEN))
          ELSE Contains(plan[i].phase, "Yellow")

\* validate_plan without its test on the green durations
validate_plan_any_green(plan) ==
    /\ Len(plan) = 4
    /\ \A i \in DOMAIN plan :
          IF (i - 1) % 2 = 0
          THEN Contains(plan[i].phase, "Green")
          ELSE /\ Contains(plan[i].phase, "Yellow")
               /\ ~AbsAboveCenti(RSub(plan[i].duration, R(YELLOW_DURATION)))

validate_plan(plan) ==
    /\ Len(plan) = 4
    /\ \A i \in DOMAIN plan :
          IF (i - 1) % 2 = 0
          THEN /\ Contains(plan[i].phase, "Green")
               /\ ~RLt(plan[i].duration, R(MIN_GREEN))
          ELSE /\ Contains(plan[i].phase, "Yellow")
               /\ ~AbsAboveCenti(RSub(plan[i].duration, R(YELLOW_DURATION)))

(***************************************************************************)
(* adjust_four_phase_plan_to_cycle_length                                  *)
(***************************************************************************)
adjust_four_phase_plan_to_cycle_length(plan, target_cycle_length) ==
    LET green_indices == {i \in DOMAIN plan : Contains(plan[i].phase, "Green")}
        total_green == SumWhere(plan, "Green")
        total_yellow == SumWhere(plan, "Yellow")
        current_cycle == RAdd(total_green, total_yellow)
        diff == RSub(target_cycle_length, current_cycle)
        prop(i) == IF RLt(R(0), total_green)
                   THEN RDiv(plan[i].duration, total_green)
                   ELSE <<1, 2>>
        stretched == [i \in DOMAIN plan |->
                        IF i \in green_indices
                        THEN [plan[i] EXCEPT !.duration =
                                 RMax(RAdd(@, RMul(diff, prop(i))), R(MIN_GREEN))]
                        ELSE plan[i]]
        plan_cycle == RAdd(SumWhere(stretched, "Green"), total_yellow)
        first == CHOOSE i \in green_indices : \A j \in green_indices : i <= j
    IN  IF AbsBelowMicro(diff) THEN plan
        ELSE IF AbsAboveMicro(RSub(plan_cycle, target_cycle_length))
        THEN [stretched EXCEPT ![first].duration =
                 RMax(RAdd(@, RSub(target_cycle_length, plan_cycle)), R(MIN_GREEN))]
        ELSE stretched

(***************************************************************************)
(* extract_four_phases                                                     *)
(***************************************************************************)
\* next((p for p in full_plan if ...), None) over the positions that pass the
\* test: the first of them, 0 when there is none (None)
FirstOf(positions) ==
    IF positions = {} THEN 0
    ELSE CHOOSE i \in positions : \A j \in positions : i <= j

extract_four_phases(full_plan) ==
    LET IsNsGreen(p) == \/ Contains(p.phase, "North-South Through Green")
                        \/ p.phase = "North-South Through" /\ Contains(p.phase, "Green")
        IsNsYellow(p) == Contains(p.phase, "North-South Through Yellow")
        IsEwGreen(p) == \/ Contains(p.phase, "East-West Through Green")
                        \/ p.phase = "East-West Through" /\ Contains(p.phase, "Green")
        IsEwYellow(p) == Contains(p.phase, "East-West Through Yellow")
        IsNsFallback(p) == Contains(p.phase, "North-South Through")
                           /\ ~Contains(p.phase, "Yellow")
        IsEwFallback(p) == Contains(p.phase, "East-West Through")
                           /\ ~Contains(p.phase, "Yellow")
        ns_green ==
            IF \E i \in DOMAIN full_plan : IsNsGreen(full_plan[i])
            THEN FirstOf({i \in DOMAIN full_plan : IsNsGreen(full_plan[i])})
            ELSE FirstOf({i \in DOMAIN full_plan : IsNsFallback(full_plan[i])})
        ns_yellow == FirstOf({i \in DOMAIN full_plan : IsNsYellow(full_plan[i])})
        ew_green ==
            IF \E i \in DOMAIN full_plan : IsEwGreen(full_plan[i])
            THEN FirstOf({i \in DOMAIN full_plan : IsEwGreen(full_plan[i])})
            ELSE FirstOf({i \in DOMAIN full_plan : IsEwFallback(full_plan[i])})
        ew_yellow == FirstOf({i \in DOMAIN full_plan : IsEwYellow(full_plan[i])})
        core(k) == IF k # 0
                   THEN Phase(full_plan[k].phase, full_plan[k].duration)
                   ELSE Phase("", R(0))
    IN  <<core(ns_green), core(ns_yellow), core(ew_green), core(ew_yellow)>>

(***************************************************************************)
(* Plan locators.  A function that returns None in the source yields <<>>. *)
(***************************************************************************)
RECURSIVE LocateFrom(_, _, _, _)
\* the walk shared by the locators: <<position, cumulative_time>> of the first
\* phase whose [cumulative_time, cumulative_time + duration) contains t
LocateFrom(t, plan, i, cumulative_time) ==
    IF i > Len(plan) THEN <<>>
    ELSE IF /\ RLe(cumulative_time, t)
            /\ RLt(t, RAdd(cumulative_time, plan[i].duration))
    THEN <<i, cumulative_time>>
    ELSE LocateFrom(t, plan, i + 1, RAdd(cumulative_time, plan[i].duration))

Locate(t, plan) == LocateFrom(t, plan, 1, R(0))

\* (i, t - cumulative_time) for a located phase
WithOffset(t, found) ==
    IF found = <<>> THEN <<>> ELSE <<found[1], RSub(t, found[2])>>

NormalizedTime(time, timing) == RMod(time, PlanTotal(timing))

get_current_phase(time, timing) ==
    WithOffset(NormalizedTime(time, timing),
               Locate(NormalizedTime(time, timing), timing))

find_insertion_phase(second, timing) ==
    WithOffset(R(second), Locate(R(second), timing))

RECURSIVE AppendUntilHorizon(_, _, _, _, _)
\* the while loop of create_signal_plan_from_current_time
AppendUntilHorizon(timing, new_plan, total_time, phase_index, horizon) ==
    IF RLt(total_time, R(horizon))
    THEN AppendUntilHorizon(timing,
                            Append(new_plan, timing[phase_index]),
                            RAdd(total_time, timing[phase_index].duration),
                            (phase_index % Len(timing)) + 1,
                            horizon)
    ELSE new_plan

create_signal_plan_from_current_time(timing, phase_index, time_elapsed_in_phase, horizon) ==
    AppendUntilHorizon(
        timing,
        <<[timing[phase_index] EXCEPT !.duration = RSub(@, time_elapsed_in_phase)]>>,
        RSub(timing[phase_index].duration, time_elapsed_in_phase),
        (phase_index % Len(timing)) + 1,
        horizon)

OutsideCycle == "Arrival time is outside the full cycle."

PhaseStatus(name) ==
    IF Contains(name, "Yellow") THEN "Yellow"
    ELSE IF Contains(name, "Red Clearance") THEN "Red Clearance"
    ELSE "Green"

\* the value find_bus_phase returns for a located phase
BusPhaseInfo(arrival, timing, found) ==
    IF found = <<>> THEN <<OutsideCycle>>
    ELSE <<timing[found[1]].phase,
           RSub(RAdd(found[2], timing[found[1]].duration), arrival),
           PhaseStatus(timing[found[1]].phase)>>

\* find_bus_phase looking the arrival up modulo the length of the plan
find_bus_phase_wrapped(arrival, timing) ==
    BusPhaseInfo(arrival, timing, Locate(RMod(arrival, PlanTotal(timing)), timing))

\* <<phase name, remaining time, status>>, or the one-element <<OutsideCycle>>
\* standing for the message string that the source returns
find_bus_phase(arrival, timing) ==
    BusPhaseInfo(arrival, timing, Locate(arrival, timing))

(***************************************************************************)
(* calculate_bus_delay                                                     *)
(***************************************************************************)
\* the green test taken for the other street
IsBusGreenEastWest(name) ==
    /\ Contains(name, "East-West")
    /\ ~Contains(name, "Yellow")
    /\ ~Contains(name, "Red Clearance")

\* "a green phase for the bus direction (North-South)"
IsBusGreen(name) ==
    /\ Contains(name, "North-South")
    /\ ~Contains(name, "Yellow")
    /\ ~Contains(name, "Red Clearance")

RECURSIVE ScanForGreen(_, _)
\* the scan loops: <<start of the first bus green in phases>>, or <<>> (None)
ScanForGreen(phases, temp_time) ==
    IF phases = <<>> THEN <<>>
    ELSE IF IsBusGreen(Head(phases).phase) THEN <<temp_time>>
    ELSE ScanForGreen(Tail(phases), RAdd(temp_time, Head(phases).duration))

\* timing_plan.index(phase): the first position holding an equal phase
IndexOf(timing_plan, phase) ==
    CHOOSE k \in DOMAIN timing_plan :
        timing_plan[k] = phase /\ \A j \in 1..(k - 1) : timing_plan[j] # phase

\* next_green_start - intersection_arrival_time, from the forward scan when it
\* finds a green, else from the scan restarted at the head of the plan
DelayUntil(intersection_arrival_time, forward, wrapped) ==
    IF forward # <<>> THEN RSub(forward[1], intersection_arrival_time)
    ELSE IF wrapped # <<>> THEN RSub(wrapped[1], intersection_arrival_time)
    ELSE R(0)

\* the else branch: the bus met phase number k = index(phase), ending at phase_end
DelayToNextGreen(timing_plan, intersection_arrival_time, k, phase_end) ==
    DelayUntil(intersection_arrival_time,
               ScanForGreen(SubSeq(timing_plan, k + 1, Len(timing_plan)), phase_end),
               ScanForGreen(SubSeq(timing_plan, 1, k - 1), R(0)))

\* the body of the for loop at the phase the bus meets
DelayInPhase(timing_plan, intersection_arrival_time, found) ==
    IF found = <<>> THEN R(0)
    ELSE IF IsBusGreen(timing_plan[found[1]].phase) THEN R(0)
    ELSE DelayToNextGreen(timing_plan, intersection_arrival_time,
                          IndexOf(timing_plan, timing_plan[found[1]]),
                          RAdd(found[2], timing_plan[found[1]].duration))

DelayAtIntersection(timing_plan, intersection_arrival_time) ==
    DelayInPhase(timing_plan, intersection_arrival_time,
                 Locate(intersection_arrival_time, timing_plan))

\* calculate_bus_delay without the travel time from the detector to the stop line
calculate_bus_delay_at_detector(timing_plan, bus_arrival_time, bus_speed, stop_distance) ==
    DelayAtIntersection(timing_plan, bus_arrival_time)

calculate_bus_delay(timing_plan, bus_arrival_time, bus_speed, stop_distance) ==
    DelayAtIntersection(timing_plan,
                        RAdd(bus_arrival_time, Rat(stop_distance, bus_speed)))

BUS_SPEED == 40
STOP_DISTANCE == 750

(***************************************************************************)
(* enforce_yellow_and_min_green, is_valid_signal_plan                      *)
(* A function that returns None in the source yields <<>> here.            *)
(***************************************************************************)
RECURSIVE EnforceFrom(_, _, _)
\* the while loop of enforce_yellow_and_min_green from position i on
EnforceFrom(signal_plan, i, new_plan) ==
    IF i > Len(signal_plan)
    THEN IF \E k \in DOMAIN new_plan : Contains(new_plan[k].phase, "Green")
         THEN new_plan
         ELSE <<>>
    ELSE LET phase == signal_plan[i]
         IN  IF Contains(phase.phase, "Green")
             THEN IF RLt(phase.duration, R(MIN_GREEN))
                  THEN <<>>
                  ELSE EnforceFrom(
                         signal_plan,
                         IF i + 1 <= Len(signal_plan)
                            /\ Contains(signal_plan[i + 1].phase, "Yellow")
                         THEN i + 2 ELSE i + 1,
                         new_plan \o <<Phase(phase.phase, phase.duration),
                                       Phase(ReplaceGreenByYellow(phase.phase),
                                             R(YELLOW_DURATION))>>)
             ELSE IF Contains(phase.phase, "Yellow")
             THEN EnforceFrom(signal_plan, i + 1, new_plan)
             ELSE EnforceFrom(signal_plan, i + 1,
                              Append(new_plan, Phase(phase.phase, phase.duration)))

RECURSIVE DropShortGreens(_)
\* the plan without its greens below MIN_GREEN
DropShortGreens(signal_plan) ==
    IF signal_plan = <<>> THEN <<>>
    ELSE (IF /\ Contains(Head(signal_plan).phase, "Green")
             /\ RLt(Head(signal_plan).duration, R(MIN_GREEN))
          THEN <<>> ELSE <<Head(signal_plan)>>)
         \o DropShortGreens(Tail(signal_plan))

\* enforce_yellow_and_min_green leaving a short green out instead of giving up
enforce_dropping_short_greens(signal_plan) ==
    EnforceFrom(DropShortGreens(signal_plan), 1, <<>>)

enforce_yellow_and_min_green(signal_plan) == EnforceFrom(signal_plan, 1, <<>>)

is_valid_signal_plan(signal_plan) ==
    /\ \E i \in DOMAIN signal_plan : Contains(signal_plan[i].phase, "Green")
    /\ \A i \in DOMAIN signal_plan :
          Contains(signal_plan[i].phase, "Green") =>
             /\ ~RLt(signal_plan[i].duration, R(MIN_GREEN))
             /\ i + 1 <= Len(signal_plan)
             /\ signal_plan[i + 1].phase = ReplaceGreenByYellow(signal_plan[i].phase)
             /\ ~AbsAboveCenti(RSub(signal_plan[i + 1].duration, R(YELLOW_DURATION)))

(***************************************************************************)
(* apply_tsp_at_time                                                       *)
(***************************************************************************)
IsEwGreenPhase(p) == Contains(p.phase, "East-West Through") /\ Contains(p.phase, "Green")

RECURSIVE ReduceEwGreens(_, _, _, _)
\* the proportional-reduction loop over ew_green_indices from position i on;
\* yields <<plan, time_to_remove>> as the loop leaves them
ReduceEwGreens(plan, i, time_to_remove, total_ew_green) ==
    IF i > Len(plan) THEN <<plan, time_to_remove>>
    ELSE IF ~IsEwGreenPhase(plan[i])
    THEN ReduceEwGreens(plan, i + 1, time_to_remove, total_ew_green)
    ELSE LET green == plan[i]
             max_reducible == RSub(green.duration, R(MIN_GREEN))
             reduction == RMin(RMul(time_to_remove,
                                    RDiv(green.duration, total_ew_green)),
                               max_reducible)
             reduced == [plan EXCEPT ![i].duration = RSub(@, reduction)]
             left == RSub(time_to_remove, reduction)
         IN  IF RLe(left, R(0)) THEN <<reduced, left>>
             ELSE ReduceEwGreens(reduced, i + 1, left, total_ew_green)

\* the plan after the split and the insertion of the priority green and yellow
SplitAndInsert(signal_plan, phase_index, time_in_phase, extension) ==
    LET phase == signal_plan[phase_index]
        before_duration == time_in_phase
        after_duration == RSub(phase.duration, time_in_phase)
        before == IF ~RLt(before_duration, R(MIN_GREEN))
                  THEN <<Phase(phase.phase, before_duration)>> ELSE <<>>
        after == IF ~RLt(after_duration, R(MIN_GREEN))
                 THEN <<Phase(phase.phase, after_duration)>> ELSE <<>>
    IN  SubSeq(signal_plan, 1, phase_index - 1)
        \o before
        \o <<Phase(NSG, R(extension)), Phase(NSY, R(YELLOW_DURATION))>>
        \o after
        \o SubSeq(signal_plan, phase_index + 1, Len(signal_plan))

\* sum(modified_plan[i]['duration'] for i in ew_green_indices)
TotalEwGreen(modified_plan) ==
    RSum([i \in DOMAIN modified_plan |->
            IF IsEwGreenPhase(modified_plan[i])
            THEN modified_plan[i].duration ELSE R(0)])

\* lines 211-214: enforce, validate, return
CheckedPlan(enforced) ==
    IF enforced = <<>> \/ ~is_valid_signal_plan(enforced) THEN <<>> ELSE enforced

\* lines 208-209: give up when the loop left time_to_remove above zero
AfterReduction(reduced) ==
    IF RLt(R(0), reduced[2]) THEN <<>>
    ELSE CheckedPlan(enforce_yellow_and_min_green(reduced[1]))

\* lines 197-214 for the plan after the insertion
RebalanceBy(modified_plan, time_to_remove) ==
    IF /\ RLt(R(0), time_to_remove)
       /\ \E i \in DOMAIN modified_plan : IsEwGreenPhase(modified_plan[i])
    THEN AfterReduction(ReduceEwGreens(modified_plan, 1, time_to_remove,
                                       TotalEwGreen(modified_plan)))
    ELSE CheckedPlan(enforce_yellow_and_min_green(modified_plan))

\* lines 194-196: time_to_remove = total_cycle_time - original_cycle_time
Rebalance(signal_plan, modified_plan) ==
    RebalanceBy(modified_plan,
                RSub(PlanTotal(modified_plan), PlanTotal(signal_plan)))

apply_tsp_at_time(signal_plan, phase_index, time_in_phase, extension) ==
    IF /\ ~Contains(signal_plan[phase_index].phase, "Green")
       /\ ~Contains(signal_plan[phase_index].phase, "Through")
    THEN <<>>
    ELSE IF \/ /\ RLt(R(0), time_in_phase)
               /\ RLt(time_in_phase, R(MIN_GREEN))
            \/ /\ RLt(R(0), RSub(signal_plan[phase_index].duration, time_in_phase))
               /\ RLt(RSub(signal_plan[phase_index].duration, time_in_phase),
                      R(MIN_GREEN))
    THEN <<>>
    ELSE Rebalance(signal_plan,
                   SplitAndInsert(signal_plan, phase_index, time_in_phase, extension))

(***************************************************************************)
(* generate_detailed_timing_plan                                           *)
(***************************************************************************)
Directions == <<"North-South-Left", "North-South-Through",
                "East-West-Left", "East-West-Through">>

\* the initial direction_phase_map
InitialGreen(d) ==
    CASE d = "North-South-Left"    -> NSLG
      [] d = "North-South-Through" -> NSG
      [] d = "East-West-Left"      -> EWLG
      [] d = "East-West-Through"   -> EWG
InitialYellow(d) ==
    CASE d = "North-South-Left"    -> NSLY
      [] d = "North-South-Through" -> NSY
      [] d = "East-West-Left"      -> EWLY
      [] d = "East-West-Through"   -> EWY

\* d.replace('Left', 'Through').replace('-', ' '): str.replace rewrites every
\* hyphen, the one inside "North-South" and "East-West" included
FallbackBase(d) ==
    CASE d = "North-South-Left"    -> "North South Through"
      [] d = "North-South-Through" -> "North South Through"
      [] d = "East-West-Left"      -> "East West Through"
      [] d = "East-West-Through"   -> "East West Through"
FallbackGreen(d) ==
    CASE FallbackBase(d) = "North South Through" -> "North South Through Green"
      [] FallbackBase(d) = "East West Through"   -> "East West Through Green"
FallbackYellow(d) ==
    CASE FallbackBase(d) = "North South Through" -> "North South Through Yellow"
      [] FallbackBase(d) = "East West Through"   -> "East West Through Yellow"

\* direction_phase_map[d] after the fallback loop, for this signal_timing
UsesFallback(d, timing) == ~\E i \in DOMAIN timing : timing[i].phase = InitialGreen(d)
GreenNames(d, timing) ==
    IF UsesFallback(d, timing) THEN {FallbackGreen(d)} ELSE {InitialGreen(d)}
YellowNames(d, timing) ==
    IF UsesFallback(d, timing) THEN {FallbackYellow(d)} ELSE {InitialYellow(d)}

\* the inner for loop with int(phase['duration']) in place of int(round(...))
EmittedTruncated(phase, current_second, horizon) ==
    [k \in 1..Cardinality({t \in 0..(RInt(phase.duration) - 1) :
                              RLt(R(current_second + t), horizon)}) |-> phase.phase]

\* the inner for loop: the seconds one phase emits before the horizon ends
Emitted(phase, current_second, horizon) ==
    [k \in 1..Cardinality({t \in 0..(RRound(phase.duration) - 1) :
                              RLt(R(current_second + t), horizon)}) |-> phase.phase]

RECURSIVE ActivePhases(_, _, _, _)
\* the while loop: detailed['phase'], the active phase name of every emitted
\* second; acc holds the seconds emitted so far (current_second = Len(acc))
ActivePhases(timing, phase_idx, horizon, acc) ==
    IF ~RLt(R(Len(acc)), horizon) THEN acc
    ELSE ActivePhases(timing, (phase_idx % Len(timing)) + 1, horizon,
                      acc \o Emitted(timing[phase_idx], Len(acc), horizon))

\* the state read off the colour word of the phase name alone
SignalStateByColour(name, d, timing) ==
    IF Contains(name, "Green") THEN "GREEN"
    ELSE IF Contains(name, "Yellow") THEN "YELLOW"
    ELSE "RED"

SignalState(name, d, timing) ==
    IF name \in GreenNames(d, timing) THEN "GREEN"
    ELSE IF name \in YellowNames(d, timing) THEN "YELLOW"
    ELSE "RED"

\* the signal state of direction d in every emitted second
StatesOf(active, d, timing) ==
    [s \in DOMAIN active |-> SignalState(active[s], d, timing)]

\* detailed['directions'][d]
DirectionStates(timing, horizon, d) ==
    StatesOf(ActivePhases(timing, 1, horizon, <<>>), d, timing)

\* the dictionary built from the active phase of every second
DetailedOf(active, timing) ==
    [seconds |-> [s \in DOMAIN active |-> s - 1],
     phase |-> active,
     directions |-> [d \in {Directions[k] : k \in DOMAIN Directions} |->
                       StatesOf(active, d, timing)]]

generate_detailed_timing_plan(timing, horizon, cycle_length) ==
    DetailedOf(ActivePhases(timing, 1, horizon, <<>>), timing)

(***************************************************************************)
(* calculate_vehicle_queue_delay, calculate_person_delay                   *)
(* Vehicle counts are kept in units of 1 / RATE_SCALE vehicle, in which    *)
(* the arrival rates 0.3 and 0.2 and the saturation flow 1.0 are whole.    *)
(* float('inf') is the pair <<1, 0>>, above every rational under RLt.      *)
(***************************************************************************)
RATE_SCALE == 10
Inf == <<1, 0>>

Movements == <<"north left", "north through", "north right",
               "south left", "south through", "south right",
               "east left", "east through", "east right",
               "west left", "west through", "west right">>

\* the default avg_arrivals: 0.3 vehicles per second, 0.2 for right turns
DefaultArrivals ==
    [m \in {Movements[k] : k \in DOMAIN Movements} |->
        IF m \in {"north right", "south right", "east right", "west right"}
        THEN 2 ELSE 3]

dir_map(direction) ==
    CASE direction \in {"north left", "south left", "north right", "south right"}
            -> "North-South-Left"
      [] direction \in {"north through", "south through"} -> "North-South-Through"
      [] direction \in {"east left", "west left", "east right", "west right"}
            -> "East-West-Left"
      [] direction \in {"east through", "west through"} -> "East-West-Through"

SATURATION_FLOW == 10
STARTUP_LOST_TIME == 2

\* the loop body with the saturation flow served from the first green second
QueueStepNoLostTime(status, queue, green_streak, arrival_rate) ==
    LET arrived == queue + arrival_rate
        departures == IF arrived < SATURATION_FLOW THEN arrived ELSE SATURATION_FLOW
    IN  IF status = "GREEN"
        THEN <<arrived - departures,
               IF green_streak < STARTUP_LOST_TIME THEN green_streak + 1 ELSE green_streak>>
        ELSE <<arrived, 0>>

\* one pass of the per-second loop body: <<queue, green_streak>> after it
QueueStep(status, queue, green_streak, arrival_rate) ==
    LET arrived == queue + arrival_rate
        departure_rate == IF green_streak < STARTUP_LOST_TIME THEN 0 ELSE SATURATION_FLOW
        departures == IF arrived < departure_rate THEN arrived ELSE departure_rate
    IN  IF status = "GREEN"
        THEN <<arrived - departures,
               IF green_streak < STARTUP_LOST_TIME THEN green_streak + 1 ELSE green_streak>>
        ELSE <<arrived, 0>>

RECURSIVE QueueRun(_, _, _, _, _)
\* the loop over seconds lo..hi run from loop state st = <<queue, green_streak,
\* total_delay>>.  The seconds are taken in order; the range is halved, and the
\* first half's result inspected before the second half starts, only to keep
\* the evaluation shallow.
QueueRun(states, lo, hi, st, arrival_rate) ==
    IF lo > hi THEN st
    ELSE IF lo = hi
    THEN LET after == QueueStep(states[lo], st[1], st[2], arrival_rate)
         IN  <<after[1], after[2], st[3] + after[1]>>
    ELSE LET mid == (lo + hi) \div 2
             first_half == QueueRun(states, lo, mid, st, arrival_rate)
         IN  IF Len(first_half) = 3
             THEN QueueRun(states, mid + 1, hi, first_half, arrival_rate)
             ELSE first_half

\* lines 640-664 for the light states of one direction
QueueDelayOver(states, arrival_rate) ==
    IF states = <<>> THEN Inf
    ELSE Rat(QueueRun(states, 1, Len(states), <<0, 0, 0>>, arrival_rate)[3],
             RATE_SCALE)

calculate_vehicle_queue_delay(timing_plan, direction, avg_arrivals, horizon, cycle_length) ==
    QueueDelayOver(DirectionStates(timing_plan, horizon, dir_map(direction)),
                   avg_arrivals[direction])

PASSENGERS_PER_BUS == 30
PASSENGERS_PER_CAR == <<3, 2>>
TWO_CYCLE_CAP == 200

\* lines 589-615: the weighted sum, or infinity when a movement has no states
WeightedDelay(bus_delay, delays) ==
    IF \E k \in DOMAIN delays : delays[k] = Inf THEN Inf
    ELSE RAdd(RMul(bus_delay, R(PASSENGERS_PER_BUS)),
              RSum([k \in DOMAIN delays |-> RMul(delays[k], PASSENGERS_PER_CAR)]))

\* the vehicle delay of every movement over two_cycles seconds
MovementDelays(timing_plan, avg_arrivals, two_cycles, cycle_length) ==
    [k \in DOMAIN Movements |->
        calculate_vehicle_queue_delay(timing_plan, Movements[k], avg_arrivals,
                                      two_cycles, cycle_length)]

calculate_person_delay(timing_plan, bus_arrival_time, avg_arrivals, cycle_length) ==
    WeightedDelay(
        calculate_bus_delay(timing_plan, bus_arrival_time, BUS_SPEED, STOP_DISTANCE),
        MovementDelays(timing_plan, avg_arrivals,
                       RMin(RMul(cycle_length, R(2)), R(TWO_CYCLE_CAP)),
                       cycle_length))

(***************************************************************************)
(* exhaustive_search_tsp, one action per step of its body                  *)
(***************************************************************************)
VARIABLES
    signal_timing,          \* argument: the base plan
    arrival_time,           \* argument
    current_time,           \* argument
    optimization_horizon,   \* argument
    pc,                     \* position in the body of the function under run
    cycle_length,           \* local of exhaustive_search_tsp
    adjusted_arrival_time,  \* local
    current_signal_timing,  \* local: the re-anchored plan
    tsp_plans,              \* local: the candidates collected so far
    insertion_second,       \* local: the loop variable
    returned,               \* the list the function returned
    delay_args,             \* calculate_bus_delay called on its own: arguments
    delay_result,           \*   and its return value
    adjust_args,            \* adjust_four_phase_plan_to_cycle_length called
    adjust_result,          \*   twice in succession: <<first, second>> result
    apply_args,             \* apply_tsp_at_time called on its own: arguments
    apply_result,           \*   and its return value
    enforce_args,           \* enforce_yellow_and_min_green called on its own
    enforce_result,         \*   and its return value
    timeline_args,          \* generate_detailed_timing_plan called on its own
    timeline_result,        \*   and its return value
    queue_args,             \* calculate_vehicle_queue_delay called on its own:
                            \*   <<timing_plan, direction, avg_arrivals, horizon>>
    detailed_plan,          \*   local
    second,                 \*   its loop variable i, as the number of seconds done
    queue,                  \*   local
    green_streak,           \*   local
    total_delay             \*   local

searchVars == <<signal_timing, arrival_time, current_time, optimization_horizon,
                cycle_length, adjusted_arrival_time, current_signal_timing,
                tsp_plans, insertion_second, returned>>
delayVars == <<delay_args, delay_result>>
adjustVars == <<adjust_args, adjust_result>>
applyVars == <<apply_args, apply_result>>
enforceVars == <<enforce_args, enforce_result>>
timelineVars == <<timeline_args, timeline_result>>
queueVars == <<queue_args, detailed_plan, second, queue, green_streak, total_delay>>
vars == <<pc, searchVars, delayVars, adjustVars, applyVars, enforceVars,
          timelineVars, queueVars>>

\* the sort key of a candidate: None counts as +infinity
SortKey(x) ==
    <<IF x.bus_delay = <<>> THEN Inf ELSE x.bus_delay,
      IF x.person_delay = <<>> THEN Inf ELSE x.person_delay>>

\* tuple comparison key(a) < key(b)
KeyLess(a, b) ==
    \/ RLt(a[1], b[1])
    \/ ~RLt(b[1], a[1]) /\ RLt(a[2], b[2])

RECURSIVE InsertByKey(_, _)
\* x placed behind every element whose key is not above its own (stable)
InsertByKey(sorted, x) ==
    IF sorted = <<>> THEN <<x>>
    ELSE IF KeyLess(SortKey(x), SortKey(Head(sorted)))
    THEN <<x>> \o sorted
    ELSE <<Head(sorted)>> \o InsertByKey(Tail(sorted), x)

RECURSIVE SortFrom(_, _, _)
SortFrom(plans, i, sorted) ==
    IF i > Len(plans) THEN sorted
    ELSE SortFrom(plans, i + 1, InsertByKey(sorted, plans[i]))

\* the candidates left in the order they were found
Unsorted(plans) == plans

\* list.sort(key = ...): a stable ascending sort
SortByDelays(plans) == SortFrom(plans, 1, <<>>)

\* [p for p in tsp_plans if validate_plan(p['plan'])]
RECURSIVE KeepValid(_)
KeepValid(plans) ==
    IF plans = <<>> THEN <<>>
    ELSE (IF validate_plan(Head(plans).plan) THEN <<Head(plans)>> ELSE <<>>)
         \o KeepValid(Tail(plans))

\* range(min(int(cycle_length), optimization_horizon))
InsertionBound ==
    IF RInt(cycle_length) < optimization_horizon
    THEN RInt(cycle_length) ELSE optimization_horizon

\* the dictionary of one candidate; four_phase_plan is its 'plan' entry and
\* timing the horizon-long plan its delays and timeline are computed on
Candidate(four_phase_plan, kind, point, ext, timing, adjusted, cl, horizon) ==
    [plan |-> four_phase_plan,
     type |-> kind,
     insertion_point |-> point,
     extension |-> ext,
     bus_delay |-> calculate_bus_delay(timing, adjusted, BUS_SPEED, STOP_DISTANCE),
     person_delay |-> calculate_person_delay(timing, adjusted, DefaultArrivals, cl),
     detailed_timing |-> generate_detailed_timing_plan(timing, R(horizon), cl)]

\* lines 109-120: the baseline candidate, kept when its plan validates
BaselinePlans(four_phase_plan, reanchored, adjusted, cl, horizon) ==
    IF validate_plan(four_phase_plan)
    THEN <<Candidate(four_phase_plan, "No TSP", <<>>, <<>>,
                     reanchored, adjusted, cl, horizon)>>
    ELSE <<>>

\* lines 107-120 once the plan is re-anchored
BaselineFrom(reanchored, adjusted, cl) ==
    /\ current_signal_timing' = reanchored
    /\ tsp_plans' = BaselinePlans(
                       adjust_four_phase_plan_to_cycle_length(
                           extract_four_phases(reanchored), cl),
                       reanchored, adjusted, cl, optimization_horizon)

\* lines 101-106: current_phase_index, time_elapsed_in_phase, re-anchoring
Reanchor(timing, current_phase_info, horizon) ==
    IF current_phase_info = <<>>
    THEN create_signal_plan_from_current_time(timing, 1, R(0), horizon)
    ELSE create_signal_plan_from_current_time(timing, current_phase_info[1],
                                              current_phase_info[2], horizon)

\* line 100
AdjustedArrival(arrival, current) ==
    IF ~RLt(arrival, current) THEN RSub(arrival, current) ELSE arrival

\* lines 99-120: re-anchor the plan and build the baseline candidate
Baseline ==
    /\ pc = "start"
    /\ cycle_length' = PlanTotal(signal_timing)
    /\ adjusted_arrival_time' = AdjustedArrival(arrival_time, current_time)
    /\ BaselineFrom(Reanchor(signal_timing,
                             get_current_phase(current_time, signal_timing),
                             optimization_horizon),
                    AdjustedArrival(arrival_time, current_time),
                    PlanTotal(signal_timing))
    /\ pc' = "located"
    /\ UNCHANGED <<signal_timing, arrival_time, current_time, optimization_horizon,
                   insertion_second, returned, delayVars, adjustVars,
                   applyVars, enforceVars, timelineVars, queueVars>>

\* lines 121-123: the bus arrives outside the modelled horizon
ReturnBaselineOnly ==
    /\ pc = "located"
    /\ Len(find_bus_phase(adjusted_arrival_time, current_signal_timing)) = 1
    /\ returned' = tsp_plans
    /\ pc' = "done"
    /\ UNCHANGED <<signal_timing, arrival_time, current_time, optimization_horizon,
                   cycle_length, adjusted_arrival_time, current_signal_timing,
                   tsp_plans, insertion_second, delayVars, adjustVars,
                   applyVars, enforceVars, timelineVars, queueVars>>

\* lines 124-125: the bus phase is found, the loop starts
BeginInsertions ==
    /\ pc = "located"
    /\ Len(find_bus_phase(adjusted_arrival_time, current_signal_timing)) # 1
    /\ insertion_second' = 0
    /\ pc' = "loop"
    /\ UNCHANGED <<signal_timing, arrival_time, current_time, optimization_horizon,
                   cycle_length, adjusted_arrival_time, current_signal_timing,
                   tsp_plans, returned, delayVars, adjustVars,
                   applyVars, enforceVars, timelineVars, queueVars>>

\* lines 142-155: the candidate is appended when its four-phase plan validates
PlansWithCandidate(tsp_modified_plan, four_phase_plan) ==
    IF ~validate_plan(four_phase_plan) THEN tsp_plans
    ELSE Append(tsp_plans,
                Candidate(four_phase_plan, "TSP Insertion", insertion_second,
                          MIN_GREEN, tsp_modified_plan, adjusted_arrival_time,
                          cycle_length, optimization_horizon))

\* lines 138-141
PlansWithModified(tsp_modified_plan) ==
    IF tsp_modified_plan = <<>> THEN tsp_plans
    ELSE PlansWithCandidate(
             tsp_modified_plan,
             adjust_four_phase_plan_to_cycle_length(
                 extract_four_phases(tsp_modified_plan), cycle_length))

\* lines 127-137; dynamic_extension is MIN_GREEN
PlansAfterInsertion(insertion_phase_info) ==
    IF insertion_phase_info = <<>> THEN tsp_plans
    ELSE PlansWithModified(
             apply_tsp_at_time(current_signal_timing, insertion_phase_info[1],
                               insertion_phase_info[2], MIN_GREEN))

\* lines 125-155: one pass of the loop body
TryInsertion ==
    /\ pc = "loop"
    /\ insertion_second < InsertionBound
    /\ tsp_plans' = PlansAfterInsertion(
                        find_insertion_phase(insertion_second, current_signal_timing))
    /\ insertion_second' = insertion_second + 1
    /\ UNCHANGED <<pc, signal_timing, arrival_time, current_time,
                   optimization_horizon, cycle_length, adjusted_arrival_time,
                   current_signal_timing, returned, delayVars, adjustVars,
                   applyVars, enforceVars, timelineVars, queueVars>>

\* lines 156-161: filter, sort and return
RankAndReturn ==
    /\ pc = "loop"
    /\ insertion_second >= InsertionBound
    /\ returned' = SortByDelays(KeepValid(tsp_plans))
    /\ pc' = "done"
    /\ UNCHANGED <<signal_timing, arrival_time, current_time, optimization_horizon,
                   cycle_length, adjusted_arrival_time, current_signal_timing,
                   tsp_plans, insertion_second, delayVars, adjustVars,
                   applyVars, enforceVars, timelineVars, queueVars>>

(***************************************************************************)
(* Inputs                                                                  *)
(***************************************************************************)
FourPhase(ns_green, ns_yellow, ew_green, ew_yellow) ==
    <<Phase(NSG, ns_green), Phase(NSY, ns_yellow),
      Phase(EWG, ew_green), Phase(EWY, ew_yellow)>>

\* the plan of scenarios A to C: cycle 100 s
PlanA == FourPhase(R(46), R(4), R(46), R(4))
\* a short cycle of 36 s
PlanB == FourPhase(R(14), R(4), R(14), R(4))
\* a base plan whose first green is below MIN_GREEN
PlanShortGreen == FourPhase(R(3), R(4), R(25), R(4))
\* a base plan whose first yellow lasts 4.005 s
PlanLooseYellow == FourPhase(R(14), <<801, 200>>, R(14), R(4))

\* a base plan whose first yellow lasts 3 s
PlanShortYellow == FourPhase(R(14), R(3), R(14), R(4))

\* the plan of scenario A with the two movements exchanged
PlanAMirrored ==
    <<Phase(EWG, R(46)), Phase(EWY, R(4)), Phase(NSG, R(46)), Phase(NSY, R(4))>>
\* a plan holding two phases of identical name and duration
PlanRepeated ==
    <<Phase(NSY, R(4)), Phase(EWG, R(10)), Phase(EWY, R(4)),
      Phase(EWG, R(10)), Phase(EWY, R(4)), Phase(NSG, R(10))>>
\* scenario A's plan as the search re-anchors it at time 0 over 200 s
PlanATwoCycles == create_signal_plan_from_current_time(PlanA, 1, R(0), 200)

MaxCurrentTime == 17
MaxBusArrival == 60
MaxAdjustGreen == 8

ArrivalTimes == {R(0), R(20), R(60)}

\* <<signal_timing, current_time, arrival_time, optimization_horizon>>
SearchArguments ==
    {<<PlanB, R(c), a, h>> : c \in 0..MaxCurrentTime, a \in ArrivalTimes, h \in {36, 72}}
    \cup {<<PlanA, R(c), R(a), 200>> : c \in {0, 44}, a \in {20, 40}}
    \cup {<<PlanShortGreen, R(0), a, 36>> : a \in ArrivalTimes}
    \cup {<<PlanLooseYellow, R(0), a, 36>> : a \in ArrivalTimes}
    \cup {<<PlanShortYellow, R(0), a, 36>> : a \in ArrivalTimes}

\* <<timing_plan, bus_arrival_time, bus_speed, stop_distance>>
DelayArguments ==
    {<<p, R(t), BUS_SPEED, d>> :
        p \in {PlanA, PlanAMirrored, PlanRepeated, PlanATwoCycles},
        t \in 0..MaxBusArrival,
        d \in {STOP_DISTANCE, 400}}

\* <<plan, target_cycle_length>>
AdjustArguments ==
    {<<FourPhase(R(g1), R(YELLOW_DURATION), R(g2), R(YELLOW_DURATION)), R(t)>> :
        g1 \in 1..MaxAdjustGreen, g2 \in {5, 14, 46}, t \in {18, 36, 100}}

NoCall == <<>>

ApplyIdle == apply_args = NoCall /\ apply_result = NoCall
EnforceIdle == enforce_args = NoCall /\ enforce_result = NoCall
TimelineIdle == timeline_args = NoCall /\ timeline_result = NoCall
QueueIdle ==
    /\ queue_args = NoCall
    /\ detailed_plan = NoCall
    /\ second = 0
    /\ queue = 0
    /\ green_streak = 0
    /\ total_delay = 0

SearchIdle ==
    /\ signal_timing = <<>>
    /\ current_time = R(0)
    /\ arrival_time = R(0)
    /\ optimization_horizon = 0
    /\ cycle_length = R(0)
    /\ adjusted_arrival_time = R(0)
    /\ current_signal_timing = <<>>
    /\ tsp_plans = <<>>
    /\ insertion_second = 0
    /\ returned = <<>>

Init ==
    /\ \E args \in SearchArguments :
          /\ signal_timing = args[1]
          /\ current_time = args[2]
          /\ arrival_time = args[3]
          /\ optimization_horizon = args[4]
    /\ pc = "start"
    /\ cycle_length = R(0)
    /\ adjusted_arrival_time = R(0)
    /\ current_signal_timing = <<>>
    /\ tsp_plans = <<>>
    /\ insertion_second = 0
    /\ returned = <<>>
    /\ delay_args = NoCall
    /\ delay_result = NoCall
    /\ adjust_args = NoCall
    /\ adjust_result = NoCall
    /\ ApplyIdle /\ EnforceIdle /\ TimelineIdle /\ QueueIdle

Next ==
    \/ Baseline
    \/ ReturnBaselineOnly
    \/ BeginInsertions
    \/ TryInsertion
    \/ RankAndReturn

Spec == Init /\ [][Next]_vars

(***************************************************************************)
(* calculate_bus_delay called on its own                                   *)
(***************************************************************************)
InitDelay ==
    /\ delay_args \in DelayArguments
    /\ delay_result = NoCall
    /\ pc = "delay"
    /\ SearchIdle
    /\ adjust_args = NoCall
    /\ adjust_result = NoCall
    /\ ApplyIdle /\ EnforceIdle /\ TimelineIdle /\ QueueIdle

CalculateBusDelay ==
    /\ pc = "delay"
    /\ delay_result' = calculate_bus_delay(delay_args[1], delay_args[2],
                                           delay_args[3], delay_args[4])
    /\ pc' = "done"
    /\ UNCHANGED <<searchVars, delay_args, adjustVars,
                   applyVars, enforceVars, timelineVars, queueVars>>

NextDelay == CalculateBusDelay

SpecDelay == InitDelay /\ [][NextDelay]_vars

(***************************************************************************)
(* adjust_four_phase_plan_to_cycle_length applied twice in succession      *)
(***************************************************************************)
InitAdjust ==
    /\ adjust_args \in AdjustArguments
    /\ adjust_result = NoCall
    /\ pc = "adjust"
    /\ SearchIdle
    /\ delay_args = NoCall
    /\ delay_result = NoCall
    /\ ApplyIdle /\ EnforceIdle /\ TimelineIdle /\ QueueIdle

AdjustOnce ==
    /\ pc = "adjust"
    /\ adjust_result' =
          <<adjust_four_phase_plan_to_cycle_length(adjust_args[1], adjust_args[2])>>
    /\ pc' = "adjusted"
    /\ UNCHANGED <<searchVars, delayVars, adjust_args,
                   applyVars, enforceVars, timelineVars, queueVars>>

AdjustAgain ==
    /\ pc = "adjusted"
    /\ adjust_result' =
          Append(adjust_result,
                 adjust_four_phase_plan_to_cycle_length(adjust_result[1],
                                                        adjust_args[2]))
    /\ pc' = "done"
    /\ UNCHANGED <<searchVars, delayVars, adjust_args,
                   applyVars, enforceVars, timelineVars, queueVars>>

NextAdjust == AdjustOnce \/ AdjustAgain

SpecAdjust == InitAdjust /\ [][NextAdjust]_vars

(***************************************************************************)
(* apply_tsp_at_time called on its own                                     *)
(***************************************************************************)
\* a plan whose yellows last 6 s
PlanLongYellow == FourPhase(R(46), R(6), R(46), R(6))

MaxOffset == 45

\* <<signal_plan, phase_index, time_in_phase, extension>>, phase_index counted
\* from 1, with 0 <= time_in_phase < duration of the phase
ApplyArguments ==
    {a \in {<<p, i, R(t), MIN_GREEN>> :
                p \in {PlanA, PlanATwoCycles, PlanB, PlanLongYellow},
                i \in 1..8, t \in 0..MaxOffset} :
        /\ a[2] <= Len(a[1])
        /\ RLt(a[3], a[1][a[2]].duration)}

InitApply ==
    /\ apply_args \in ApplyArguments
    /\ apply_result = NoCall
    /\ pc = "apply"
    /\ SearchIdle
    /\ delay_args = NoCall
    /\ delay_result = NoCall
    /\ adjust_args = NoCall
    /\ adjust_result = NoCall
    /\ EnforceIdle /\ TimelineIdle /\ QueueIdle

ApplyTspAtTime ==
    /\ pc = "apply"
    /\ apply_result' = apply_tsp_at_time(apply_args[1], apply_args[2],
                                         apply_args[3], apply_args[4])
    /\ pc' = "done"
    /\ UNCHANGED <<searchVars, delayVars, adjustVars, apply_args,
                   enforceVars, timelineVars, queueVars>>

NextApply == ApplyTspAtTime

SpecApply == InitApply /\ [][NextApply]_vars

(***************************************************************************)
(* enforce_yellow_and_min_green called on its own                          *)
(***************************************************************************)
MaxEnforceGreen == 8

\* plans of two greens, with their yellows, with a short first yellow, with no
\* yellow at all, and a plan that holds no green
EnforceArguments ==
    UNION {{FourPhase(R(g1), R(YELLOW_DURATION), R(g2), R(YELLOW_DURATION)),
            FourPhase(R(g1), R(3), R(g2), R(YELLOW_DURATION)),
            <<Phase(NSG, R(g1)), Phase(EWG, R(g2))>>,
            <<Phase(NSY, R(g1)), Phase(EWY, R(g2))>>} :
           g1 \in 1..MaxEnforceGreen, g2 \in 1..MaxEnforceGreen}

InitEnforce ==
    /\ enforce_args \in EnforceArguments
    /\ enforce_result = NoCall
    /\ pc = "enforce"
    /\ SearchIdle
    /\ delay_args = NoCall
    /\ delay_result = NoCall
    /\ adjust_args = NoCall
    /\ adjust_result = NoCall
    /\ ApplyIdle /\ TimelineIdle /\ QueueIdle

EnforceYellowAndMinGreen ==
    /\ pc = "enforce"
    /\ enforce_result' = enforce_yellow_and_min_green(enforce_args)
    /\ pc' = "done"
    /\ UNCHANGED <<searchVars, delayVars, adjustVars, applyVars, enforce_args,
                   timelineVars, queueVars>>

NextEnforce == EnforceYellowAndMinGreen

SpecEnforce == InitEnforce /\ [][NextEnforce]_vars

(***************************************************************************)
(* generate_detailed_timing_plan called on its own                         *)
(***************************************************************************)
\* a plan with protected left turns
PlanEightPhase ==
    <<Phase(NSLG, R(6)), Phase(NSLY, R(4)), Phase(NSG, R(10)), Phase(NSY, R(4)),
      Phase(EWLG, R(6)), Phase(EWLY, R(4)), Phase(EWG, R(10)), Phase(EWY, R(4))>>
\* a plan whose greens last 15.5 s and 12.5 s
PlanHalfSeconds == FourPhase(<<31, 2>>, R(4), <<25, 2>>, R(4))

MaxHorizon == 40

\* <<signal_timing, horizon, cycle_length>>
TimelineArguments ==
    {<<p, R(h), PlanTotal(p)>> :
        p \in {PlanB, PlanEightPhase, PlanLooseYellow, PlanHalfSeconds},
        h \in 0..MaxHorizon}

InitTimeline ==
    /\ timeline_args \in TimelineArguments
    /\ timeline_result = NoCall
    /\ pc = "timeline"
    /\ SearchIdle
    /\ delay_args = NoCall
    /\ delay_result = NoCall
    /\ adjust_args = NoCall
    /\ adjust_result = NoCall
    /\ ApplyIdle /\ EnforceIdle /\ QueueIdle

GenerateDetailedTimingPlan ==
    /\ pc = "timeline"
    /\ timeline_result' = generate_detailed_timing_plan(
                              timeline_args[1], timeline_args[2], timeline_args[3])
    /\ pc' = "done"
    /\ UNCHANGED <<searchVars, delayVars, adjustVars, applyVars, enforceVars,
                   timeline_args, queueVars>>

NextTimeline == GenerateDetailedTimingPlan

SpecTimeline == InitTimeline /\ [][NextTimeline]_vars

(***************************************************************************)
(* calculate_vehicle_queue_delay called on its own, one step per second    *)
(***************************************************************************)
\* arrival rates in vehicles per RATE_SCALE seconds, the same for every movement
ArrivalRates == {0, 3, 12}

\* <<timing_plan, direction, avg_arrivals, horizon>>
QueueArguments ==
    {<<p, d, [m \in DOMAIN DefaultArrivals |-> r], R(h)>> :
        p \in {PlanB, PlanEightPhase},
        d \in {"north through", "east through", "south left", "west right"},
        r \in ArrivalRates,
        h \in {0, MaxHorizon \div 2, MaxHorizon}}

InitQueue ==
    /\ queue_args \in QueueArguments
    /\ detailed_plan = NoCall
    /\ second = 0
    /\ queue = 0
    /\ green_streak = 0
    /\ total_delay = 0
    /\ pc = "queue"
    /\ SearchIdle
    /\ delay_args = NoCall
    /\ delay_result = NoCall
    /\ adjust_args = NoCall
    /\ adjust_result = NoCall
    /\ ApplyIdle /\ EnforceIdle /\ TimelineIdle

\* lines 622-627 with an empty timeline: float('inf') is returned
QueueReturnInfinite ==
    /\ pc = "queue"
    /\ generate_detailed_timing_plan(queue_args[1], queue_args[4],
                                     PlanTotal(queue_args[1])).seconds = <<>>
    /\ pc' = "returned inf"
    /\ UNCHANGED <<searchVars, delayVars, adjustVars, applyVars, enforceVars,
                   timelineVars, queueVars>>

\* lines 622-649: the timeline is built and the locals are initialised
QueueBegin ==
    /\ pc = "queue"
    /\ detailed_plan' = generate_detailed_timing_plan(queue_args[1], queue_args[4],
                                                      PlanTotal(queue_args[1]))
    /\ detailed_plan'.seconds # <<>>
    /\ second' = 0
    /\ queue' = 0
    /\ total_delay' = 0
    /\ green_streak' = 0
    /\ pc' = "loop"
    /\ UNCHANGED <<searchVars, delayVars, adjustVars, applyVars, enforceVars,
                   timelineVars, queue_args>>

\* lines 650-663: one pass of the loop, for i = second
QueueSecond ==
    /\ pc = "loop"
    /\ second < Len(detailed_plan.seconds)
    /\ LET after == QueueStep(
                        detailed_plan.directions[dir_map(queue_args[2])][second + 1],
                        queue, green_streak, queue_args[3][queue_args[2]])
       IN  /\ queue' = after[1]
           /\ green_streak' = after[2]
           /\ total_delay' = total_delay + after[1]
    /\ second' = second + 1
    /\ UNCHANGED <<pc, searchVars, delayVars, adjustVars, applyVars, enforceVars,
                   timelineVars, queue_args, detailed_plan>>

\* line 664
QueueReturn ==
    /\ pc = "loop"
    /\ second = Len(detailed_plan.seconds)
    /\ pc' = "done"
    /\ UNCHANGED <<searchVars, delayVars, adjustVars, applyVars, enforceVars,
                   timelineVars, queueVars>>

NextQueue == QueueReturnInfinite \/ QueueBegin \/ QueueSecond \/ QueueReturn

SpecQueue == InitQueue /\ [][NextQueue]_vars

(***************************************************************************)
(* Properties of exhaustive_search_tsp (specification Spec)                *)
(***************************************************************************)
\* C1: every candidate of the returned list has a 'plan' whose phase durations
\* sum to the cycle length of the base plan, within 1e-6 s.
C1_CycleConservation ==
    pc = "done" =>
        \A i \in DOMAIN returned :
            ~AbsAboveMicro(RSub(PlanTotal(returned[i].plan), PlanTotal(signal_timing)))

C3_MinimumGreen ==
    pc = "done" =>
        \A i \in DOMAIN returned :
            \A k \in DOMAIN returned[i].plan :
                Contains(returned[i].plan[k].phase, "Green") =>
                    RLe(R(MIN_GREEN), returned[i].plan[k].duration)

\* a search has returned a baseline whose plan the adjustment changed and that
\* holds a green of exactly MIN_GREEN
C3_AdjustedGreenAtMinimum ==
    /\ pc = "done"
    /\ \E i \in DOMAIN returned :
          /\ returned[i].type = "No TSP"
          /\ returned[i].plan # extract_four_phases(current_signal_timing)
          /\ \E k \in DOMAIN returned[i].plan :
                /\ Contains(returned[i].plan[k].phase, "Green")
                /\ returned[i].plan[k].duration = R(MIN_GREEN)

\* C5: the returned list is in ascending order of (bus_delay, person_delay),
\* compared lexicographically with None as +infinity, so its first element is
\* not above any other.
C5_SortedByDelays ==
    pc = "done" =>
        \A i, j \in DOMAIN returned :
            i < j =>
                LET bi == IF returned[i].bus_delay = <<>> THEN Inf ELSE returned[i].bus_delay
                    bj == IF returned[j].bus_delay = <<>> THEN Inf ELSE returned[j].bus_delay
                    qi == IF returned[i].person_delay = <<>> THEN Inf
                          ELSE returned[i].person_delay
                    qj == IF returned[j].person_delay = <<>> THEN Inf
                          ELSE returned[j].person_delay
                IN  \/ RLt(bi, bj)
                    \/ bi = bj /\ RLe(qi, qj)

\* a search has returned several candidates in another order than it found them
C5_Reordered ==
    /\ pc = "done"
    /\ Len(returned) >= 2
    /\ returned # tsp_plans
    /\ returned[1].type = "TSP Insertion"

\* C6: on the 46/4/46/4 plan, searched over the insertion seconds 0..99, when
\* the baseline leaves the bus waiting more than MIN_GREEN seconds for its
\* green, some returned TSP Insertion has a strictly lower bus_delay than the
\* baseline.
C6_InsertionBeatsBaseline ==
    (/\ pc = "done"
     /\ Durations(signal_timing) = <<R(46), R(4), R(46), R(4)>>
     /\ InsertionBound = 100
     /\ \E j \in DOMAIN returned :
           /\ returned[j].type = "No TSP"
           /\ RLt(R(MIN_GREEN), returned[j].bus_delay))
    => \E i, j \in DOMAIN returned :
           /\ returned[i].type = "TSP Insertion"
           /\ returned[j].type = "No TSP"
           /\ RLt(returned[i].bus_delay, returned[j].bus_delay)

\* the adjusted arrival time lies in no phase of the re-anchored plan
C9_OutsideHorizon ==
    \/ RLt(adjusted_arrival_time, R(0))
    \/ RLe(PlanTotal(current_signal_timing), adjusted_arrival_time)

IntersectionArrival == RAdd(delay_args[2], Rat(delay_args[4], delay_args[3]))

\* the time at which phase number i of the plan starts
PhaseStart(plan, i) == PlanTotal(SubSeq(plan, 1, i - 1))

\* t lies in the interval [start, end) of phase number i
InPhase(plan, i, t) ==
    /\ RLe(PhaseStart(plan, i), t)
    /\ RLt(t, RAdd(PhaseStart(plan, i), plan[i].duration))

\* C4: when the intersection-arrival time lies in a Green interval of the bus
\* movement (North-South Through), calculate_bus_delay returns 0.
C4_ZeroDelayOnGreen ==
    (/\ pc = "done"
     /\ \E i \in DOMAIN delay_args[1] :
           /\ delay_args[1][i].phase = NSG
           /\ InPhase(delay_args[1], i, IntersectionArrival))
    => delay_result = R(0)

\* the bus of scenario A has reached the 46/4/46/4 plan at 38.75 s
C4_ScenarioA ==
    /\ pc = "done"
    /\ Durations(delay_args[1]) = <<R(46), R(4), R(46), R(4)>>
    /\ delay_args[1][1].phase = NSG
    /\ IntersectionArrival = <<155, 4>>
    /\ delay_result = R(0)

\* C8 as the specification words it: on the plan NS-Green 46, NS-Yellow 4,
\* EW-Green 46, EW-Yellow 4, a bus reaching the intersection at 10 s is delayed
\* by 50 - 10 = 40 s.
C8_EastWestBusWaits40 ==
    (/\ pc = "done"
     /\ delay_args[1] = FourPhase(R(46), R(4), R(46), R(4))
     /\ IntersectionArrival = R(10))
    => delay_result = R(40)

\* C8 as the code behaves: calculate_bus_delay takes no movement and treats
\* the bus as North-South, so at 10 s on the 46/4/46/4 plan it returns 0; the
\* 40 s of the scenario are returned when the bus street is the one that is
\* red until 50 s, which is the plan with the two movements exchanged.
C8_BusIsNorthSouth ==
    (pc = "done" /\ IntersectionArrival = R(10)) =>
        /\ delay_args[1] = FourPhase(R(46), R(4), R(46), R(4))
              => delay_result = R(0)
        /\ delay_args[1] = <<Phase(EWG, R(46)), Phase(EWY, R(4)),
                             Phase(NSG, R(46)), Phase(NSY, R(4))>>
              => delay_result = RSub(R(50), R(10))

\* a bus has reached the exchanged plan at 10 s and been delayed by 40 s
C8_RedUntil50 ==
    /\ pc = "done"
    /\ delay_args[1][1].phase = EWG
    /\ Durations(delay_args[1]) = <<R(46), R(4), R(46), R(4)>>
    /\ IntersectionArrival = R(10)
    /\ delay_result = R(40)

\* the start of the first bus green beginning after phase number i, looked for
\* behind i first and, when none follows, from the head of the plan
NextBusGreenStart(plan, i) ==
    LET later == {j \in (i + 1)..Len(plan) : plan[j].phase = NSG}
        earlier == {j \in 1..(i - 1) : plan[j].phase = NSG}
    IN  IF later # {}
        THEN PhaseStart(plan, CHOOSE j \in later : \A k \in later : j <= k)
        ELSE PhaseStart(plan, CHOOSE j \in earlier : \A k \in earlier : j <= k)

\* C10: when the intersection-arrival time lies in a phase that is not Green
\* for the bus movement, calculate_bus_delay returns the start of the first bus
\* green beginning after that phase (wrapping once to the head of the plan)
\* minus the intersection-arrival time, also in plans that repeat a phase of
\* identical name and duration.
C10_DelayToNextGreen ==
    pc = "done" =>
        \A i \in DOMAIN delay_args[1] :
            (/\ InPhase(delay_args[1], i, IntersectionArrival)
             /\ delay_args[1][i].phase # NSG
             /\ \E j \in DOMAIN delay_args[1] : delay_args[1][j].phase = NSG)
            => delay_result =
                   RSub(NextBusGreenStart(delay_args[1], i), IntersectionArrival)

(***************************************************************************)
(* Properties of adjust_four_phase_plan_to_cycle_length (SpecAdjust)       *)
(***************************************************************************)
\* C7: applying the adjustment a second time with the same target to the
\* result of the first application leaves every phase duration unchanged.
C7_AdjustIdempotent ==
    (pc = "done" /\ Len(adjust_result) = 2) =>
        Durations(adjust_result[2]) = Durations(adjust_result[1])

(***************************************************************************)
(* Properties of apply_tsp_at_time (specification SpecApply)               *)
(***************************************************************************)
\* the plan of the call under run after the split and the insertion
ApplyInserted ==
    SplitAndInsert(apply_args[1], apply_args[2], apply_args[3], apply_args[4])

\* the duration the insertion added to the plan
ApplyExcess == RSub(PlanTotal(ApplyInserted), PlanTotal(apply_args[1]))

\* the East-West Through Green time of a plan, and what of it lies above
\* MIN_GREEN in each such phase
CompetingGreen(plan) ==
    RSum([k \in DOMAIN plan |->
            IF plan[k].phase = EWG THEN plan[k].duration ELSE R(0)])
CompetingSlack(plan) ==
    RSum([k \in DOMAIN plan |->
            IF plan[k].phase = EWG /\ RLt(R(MIN_GREEN), plan[k].duration)
            THEN RSub(plan[k].duration, R(MIN_GREEN)) ELSE R(0)])

\* the call under run targets a Green phase and leaves no remainder that is
\* shorter than MIN_GREEN but not zero
ApplySplitAccepted ==
    /\ apply_args[1][apply_args[2]].phase \in {NSG, EWG}
    /\ apply_args[3] = R(0) \/ RLe(R(MIN_GREEN), apply_args[3])
    /\ RLe(R(MIN_GREEN), RSub(apply_args[1][apply_args[2]].duration, apply_args[3]))

\* C11: after the insertion, when the competing East-West greens hold at least
\* the excess above MIN_GREEN (also when two or more of them share it),
\* apply_tsp_at_time returns a plan, in which the competing green time is
\* lower by the whole excess and no competing green is below MIN_GREEN.
C11_ExcessAbsorbed ==
    (/\ pc = "done"
     /\ ApplySplitAccepted
     /\ RLt(R(0), ApplyExcess)
     /\ RLe(ApplyExcess, CompetingSlack(ApplyInserted)))
    => /\ apply_result # <<>>
       /\ CompetingGreen(apply_result) =
              RSub(CompetingGreen(ApplyInserted), ApplyExcess)
       /\ \A k \in DOMAIN apply_result :
              apply_result[k].phase = EWG =>
                  RLe(R(MIN_GREEN), apply_result[k].duration)

\* C12: whenever apply_tsp_at_time returns a plan, the total duration of that
\* plan equals the total duration of the input plan.
C12_TotalPreserved ==
    (pc = "done" /\ apply_result # <<>>) =>
        PlanTotal(apply_result) = PlanTotal(apply_args[1])

\* C13: whenever the phase at phase_index is not a Green phase,
\* apply_tsp_at_time returns no result, at every offset inside the phase.
C13_NonGreenRejected ==
    (pc = "done" /\ apply_args[1][apply_args[2]].phase \notin {NSG, EWG}) =>
        apply_result = <<>>

(***************************************************************************)
(* Properties of enforce_yellow_and_min_green (specification SpecEnforce)  *)
(***************************************************************************)
\* the Green phases of a plan, in their order
GreensOf(plan) == SelectSeq(plan, LAMBDA ph : ph.phase \in {NSG, EWG})

\* some Green of the plan is shorter than MIN_GREEN
HasShortGreen(plan) ==
    \E k \in DOMAIN plan :
        plan[k].phase \in {NSG, EWG} /\ RLt(plan[k].duration, R(MIN_GREEN))

\* some Green of the plan lasts at least MIN_GREEN
HasLongGreen(plan) ==
    \E k \in DOMAIN plan :
        plan[k].phase \in {NSG, EWG} /\ RLe(R(MIN_GREEN), plan[k].duration)

\* C14 as the specification words it: a Green below MIN_GREEN is dropped, and
\* a plan is still returned as long as one Green survives; for an input with a
\* short and a long Green the result is a plan without the short Green.
C14_ShortGreenDropped ==
    (pc = "done" /\ HasShortGreen(enforce_args) /\ HasLongGreen(enforce_args)) =>
        /\ enforce_result # <<>>
        /\ ~HasShortGreen(enforce_result)
        /\ HasLongGreen(enforce_result)

\* C14 as the code behaves: enforce_yellow_and_min_green returns None as soon
\* as one Green is below MIN_GREEN, whatever the other Greens are, and when the
\* plan holds no Green; otherwise it returns the Greens of the input in their
\* order, each immediately followed by its own Yellow of YELLOW_DURATION.
C14_ShortGreenRejectsPlan ==
    pc = "done" =>
        /\ HasShortGreen(enforce_args) => enforce_result = <<>>
        /\ GreensOf(enforce_args) = <<>> => enforce_result = <<>>
        /\ (~HasShortGreen(enforce_args) /\ GreensOf(enforce_args) # <<>>) =>
              /\ GreensOf(enforce_result) = GreensOf(enforce_args)
              /\ Len(enforce_result) = 2 * Len(GreensOf(enforce_args))
              /\ \A k \in DOMAIN enforce_result :
                    k % 2 = 1 =>
                        /\ enforce_result[k].phase \in {NSG, EWG}
                        /\ enforce_result[k + 1] =
                               Phase(IF enforce_result[k].phase = NSG THEN NSY ELSE EWY,
                                     R(YELLOW_DURATION))

\* a plan with one Green below and one Green at or above MIN_GREEN was refused
C14_MixedPlanRefused ==
    /\ pc = "done"
    /\ HasShortGreen(enforce_args)
    /\ HasLongGreen(enforce_args)
    /\ enforce_result = <<>>

(***************************************************************************)
(* Properties of generate_detailed_timing_plan (specification SpecTimeline) *)
(***************************************************************************)
\* the position of the phase that contains time t in the cyclic repetition of
\* phases lasting lengths[1], lengths[2], ... (rationals, not all zero)
CyclicPhaseAt(lengths, t) ==
    LET into == RMod(t, RSum(lengths))
    IN  CHOOSE k \in DOMAIN lengths :
            /\ RLe(RSum(SubSeq(lengths, 1, k - 1)), into)
            /\ RLt(into, RSum(SubSeq(lengths, 1, k)))

\* the Green and the Yellow phase of each movement group
OwnGreen(d) ==
    CASE d = "North-South-Left"    -> NSLG
      [] d = "North-South-Through" -> NSG
      [] d = "East-West-Left"      -> EWLG
      [] d = "East-West-Through"   -> EWG
OwnYellow(d) ==
    CASE d = "North-South-Left"    -> NSLY
      [] d = "North-South-Through" -> NSY
      [] d = "East-West-Left"      -> EWLY
      [] d = "East-West-Through"   -> EWY

\* the timeline under run has one record per second 0..horizon-1, and in each
\* every movement group is GREEN in its own Green phase, YELLOW in its own
\* Yellow phase and RED otherwise
TimelineStatesFollowPhase ==
    /\ Len(timeline_result.seconds) = RInt(timeline_args[2])
    /\ Len(timeline_result.phase) = RInt(timeline_args[2])
    /\ \A n \in DOMAIN timeline_result.seconds :
          /\ timeline_result.seconds[n] = n - 1
          /\ \A d \in {"North-South-Left", "North-South-Through",
                       "East-West-Left", "East-West-Through"} :
                /\ Len(timeline_result.directions[d]) = RInt(timeline_args[2])
                /\ timeline_result.directions[d][n] =
                       IF timeline_result.phase[n] = OwnGreen(d) THEN "GREEN"
                       ELSE IF timeline_result.phase[n] = OwnYellow(d) THEN "YELLOW"
                       ELSE "RED"

C18_NoConflictingMovements ==
    pc = "done" =>
        \A n \in DOMAIN timeline_result.seconds :
            \A ns \in {"North-South-Left", "North-South-Through"} :
                \A ew \in {"East-West-Left", "East-West-Through"} :
                    \/ timeline_result.directions[ns][n] = "RED"
                    \/ timeline_result.directions[ew][n] = "RED"

\* a timeline of the plan with left turns shows a North-South left green, and
\* later an East-West left yellow
C18_BothStreetsServed ==
    /\ pc = "done"
    /\ \E n \in DOMAIN timeline_result.seconds :
          timeline_result.directions["North-South-Left"][n] = "GREEN"
    /\ \E n \in DOMAIN timeline_result.seconds :
          timeline_result.directions["East-West-Left"][n] = "YELLOW"

(***************************************************************************)
(* Properties of calculate_vehicle_queue_delay (specification SpecQueue)   *)
(***************************************************************************)
\* the light states of the movement whose queue is simulated
QueueLights == detailed_plan.directions[dir_map(queue_args[2])]

\* second number i (counted from 0) is GREEN and so are the two before it
ThirdGreenOrLater(i) ==
    /\ i >= STARTUP_LOST_TIME
    /\ \A k \in (i - STARTUP_LOST_TIME)..i : QueueLights[k + 1] = "GREEN"

\* C16: for non-negative arrival rates the queue is never negative after a
\* simulated second; in a GREEN second that is at least the third GREEN second
\* in a row min(queue, saturation flow) vehicles depart, the queue counted with
\* this second's arrivals; in every other second nothing departs; a non-GREEN
\* second resets green_streak to 0; and total_delay grows by the queue left
\* after the departure step.
C16_QueueSimulation ==
    [][(pc = "loop" /\ second' = second + 1) =>
          LET arrived == queue + queue_args[3][queue_args[2]]
              departures == arrived - queue'
          IN  /\ queue' >= 0
              /\ departures = IF ThirdGreenOrLater(second)
                              THEN (IF arrived < SATURATION_FLOW
                                    THEN arrived ELSE SATURATION_FLOW)
                              ELSE 0
              /\ (QueueLights[second + 1] # "GREEN" => green_streak' = 0)
              /\ total_delay' = total_delay + queue']_vars

\* the third second of a green run has just been simulated, vehicles were
\* waiting and some of them are still queued
C16_DepartedAfterLostTime ==
    /\ pc = "loop"
    /\ second > STARTUP_LOST_TIME + 1
    /\ ThirdGreenOrLater(second - 1)
    /\ QueueLights[second - STARTUP_LOST_TIME - 1] # "GREEN"
    /\ queue > 0
    /\ total_delay > queue

(***************************************************************************)
(* Further properties of calculate_bus_delay (specification SpecDelay)     *)
(***************************************************************************)
\* C17: calculate_bus_delay never returns a negative delay, also when the next
\* Green of the bus movement is found by wrapping to the start of the plan.
C17_DelayNonNegative ==
    pc = "done" => (delay_result = <<>> \/ RLe(R(0), delay_result))

(***************************************************************************)
(* Further properties of exhaustive_search_tsp (specification Spec)        *)
(***************************************************************************)
\* C19: for a base plan that passes validate_plan, whatever the current time,
\* the returned list holds exactly one 'No TSP' baseline candidate.
C19_ExactlyOneBaseline ==
    (pc = "done" /\ validate_plan(signal_timing)) =>
        Cardinality({i \in DOMAIN returned : returned[i].type = "No TSP"}) = 1

\* C20: the bus_delay and detailed_timing recorded in a returned candidate are
\* what calculate_bus_delay and generate_detailed_timing_plan give on the
\* candidate's own 'plan' with the same bus arrival and horizon.
C20_RecordedValuesOfOwnPlan ==
    pc = "done" =>
        \A i \in DOMAIN returned :
            /\ returned[i].bus_delay =
                   calculate_bus_delay(returned[i].plan, adjusted_arrival_time,
                                       BUS_SPEED, STOP_DISTANCE)
            /\ returned[i].detailed_timing =
                   generate_detailed_timing_plan(returned[i].plan,
                                                 R(optimization_horizon), cycle_length)

====
